---- MODULE Spec2Model ----
(***************************************************************************)
(* Model of the amaran_HA integration.                                     *)
(*                                                                         *)
(*   - AmaranAPI (src/__init__.py): one session with its socket handle,    *)
(*     request counter, pacing timestamp and asyncio lock, driven by any   *)
(*     number of concurrent coroutines.  Every action is one atomic run of *)
(*     a coroutine between two suspension points (asyncio is cooperative): *)
(*     asyncio.sleep, websockets.connect, Lock.acquire on a held lock,     *)
(*     websocket.send and websocket.recv.                                  *)
(*   - AmaranAPI.generate_token as an operator over the decoded key.       *)
(*   - AmaranLight (src/amaran_HA/light.py): constructor, commands, poll.  *)
(*   - The set_preset and set_quickshot services (src/__init__.py) over    *)
(*     the device registry.                                                *)
(*   - async_setup_entry (src/__init__.py, src/amaran_HA/light.py):        *)
(*     discovery and platform setup filling the device registry.           *)
(*                                                                         *)
(* Time is counted in ticks of 100 ms.                                     *)
(***************************************************************************)
EXTENDS Integers, Sequences, FiniteSets, TLC

\* ------------------------------------------------------------------ bounds
\* Number of coroutines that call into the session.
MaxCalls == 3
\* Ticks the clock may advance past StartTime.
MaxElapsed == 2
\* time.time() when the session is constructed (any value >= the interval:
\* the wall clock is far from the initial _last_request_time of 0).
StartTime == 2
\* Largest decoded key length tried by the token specification.
MaxKeyBytes == 40
\* Number of coroutines that call the services.
MaxServiceCalls == 2
\* Longest device list the controller returns during setup.
MaxDevices == 2

\* --------------------------------------------------------------- constants
\* self._min_request_interval = 0.2 s, in ticks of 100 ms.
min_request_interval == 2
\* The largest external brightness (the 255 of lines 263 and 405 of light.py).
MaxBrightness == 255
\* os.urandom(12): bytes of the GCM nonce.
IvBytes == 12
\* encryptor.tag: bytes of the GCM authentication tag.
TagBytes == 16

Calls == 1..MaxCalls
\* self.websocket = None
None == 0

VARIABLES
    \* ---- AmaranAPI
    now,                \* time.time(), in ticks
    api_key,            \* decoded length of self.api_key, -1 when it does not decode
    websocket,          \* self.websocket: None or the id of an open connection
    opened,             \* connections opened so far (ids 1..opened)
    request_id,         \* self.request_id
    last_request_time,  \* self._last_request_time
    ws_lock,            \* self._ws_lock: holder, or None
    ws_waiters,         \* coroutines queued on self._ws_lock, in order
    pc,                 \* where each coroutine is suspended
    kind,               \* what each coroutine called: send_request or connect
    wake,               \* earliest time asyncio.sleep may return
    request,            \* request["request_id"] of the envelope each call built
    sock,               \* connection a suspended send or recv is waiting on
    sent_at,            \* when each call handed its envelope to send(), and
                        \* whether it had queued on the lock before
    \* ---- history of the session
    prev_pass,          \* _last_request_time recorded by the previous caller
    passes,             \* callers that have passed the pacing step
    wire,               \* envelopes written to the socket, in order, each with
                        \* the instant of its write
    connects,           \* connect() attempts made by each call
    writes,             \* envelopes written by each call
    saw_none,           \* the call found self.websocket absent at line 317
    ret,                \* what each call returned
    token,              \* last value returned by generate_token
    in_order,           \* the controller answers each request on a connection
                        \* once and in order, and sends nothing else
    inbox,              \* replies sent by such a controller and not yet read:
                        \* the connection and the envelope answered, in order
    got,                \* the envelope whose reply each call was handed
    \* ---- AmaranLight
    config,             \* node_config['data']: capability flags and CCT bounds
    color_modes,        \* self._color_modes
    color_mode,         \* self._color_mode
    is_on,              \* self._is_on
    brightness,         \* self._brightness
    color_temp,         \* self._color_temp
    hs_color,           \* self._hs_color
    rgb_color,          \* self._rgb_color
    cmd,                \* the command coroutine: its pending await and locals
    upd,                \* the async_update coroutine: its pending await and locals
    \* ---- history of the entity
    poll,               \* the reply consumed by the latest step, when that was
                        \* a step of the poll, with the entity's state as that
                        \* step found it, and whether no command step ran since
                        \* the poll began (kept under SpecPoll only)
    \* ---- the host's services
    devices,            \* hass.data[DOMAIN]['devices']: what each device id maps to
    service,            \* the service call each coroutine is handling, if any
    setup               \* async_setup_entry: its pending await, and the device
                        \* list and position of the platform's loop

replyVars == <<in_order, inbox, got>>

apiVars == <<now, api_key, websocket, opened, request_id, last_request_time,
             ws_lock, ws_waiters, pc, kind, wake, request, sock, sent_at, prev_pass, passes,
             wire, connects, writes, saw_none, ret, token, replyVars>>

lightVars == <<config, color_modes, color_mode, is_on, brightness, color_temp,
               hs_color, rgb_color, cmd, upd, poll>>

hostVars == <<devices, service, setup>>

vars == <<apiVars, lightVars, hostVars>>

\* ------------------------------------------------------------ generate_token
\* len(str(n)) for n >= 0
RECURSIVE Digits(_)
Digits(n) == IF n < 10 THEN 1 ELSE 1 + Digits(n \div 10)

\* len(base64.b64encode(b)) for len(b) = n
B64Len(n) == 4 * ((n + 2) \div 3)

\* Key lengths algorithms.AES accepts together with modes.GCM.
AesGcmKeyBytes == {16, 24, 32}

\* generate_token(): the length of the returned string, 0 for "".
\* key is the decoded length of api_key, -1 when base64.b64decode raises.
generate_token(key, secs) ==
    IF key = -1 \/ key \notin AesGcmKeyBytes
    THEN 0
    ELSE B64Len(IvBytes + TagBytes + Digits(secs))

\* int(time.time()): whole seconds of a clock counted in ticks of 100 ms.
EpochSeconds(t) == t \div 10

\* ---------------------------------------------------------------- AmaranAPI
\* AmaranAPI.__init__; the key is any configured secret.
SessionKeys == {-1, 32}

InitSession ==
    /\ websocket = None
    /\ opened = 0
    /\ request_id = 1
    /\ last_request_time = 0
    /\ ws_lock = None
    /\ ws_waiters = <<>>
    /\ pc = [c \in Calls |-> "idle"]
    /\ kind = [c \in Calls |-> "none"]
    /\ wake = [c \in Calls |-> 0]
    /\ request = [c \in Calls |-> 0]
    /\ sock = [c \in Calls |-> None]
    /\ sent_at = [c \in Calls |-> [at |-> 0, queued |-> FALSE]]
    /\ prev_pass = 0
    /\ passes = 0
    /\ wire = <<>>
    /\ connects = [c \in Calls |-> 0]
    /\ writes = [c \in Calls |-> 0]
    /\ saw_none = [c \in Calls |-> FALSE]
    /\ ret = [c \in Calls |-> "pending"]
    /\ token = -1
    /\ inbox = <<>>
    /\ got = [c \in Calls |-> 0]

InitApi ==
    /\ now = StartTime
    /\ api_key \in SessionKeys
    /\ InitSession
    /\ in_order = FALSE

\* Mutant of Except: the handle is kept after a fault.
Except_KeepHandle(c) ==
    /\ pc' = [pc EXCEPT ![c] = "done"]
    /\ ret' = [ret EXCEPT ![c] = "empty"]
    /\ websocket' = websocket
    /\ ws_lock' = None
    /\ sock' = [sock EXCEPT ![c] = None]
    /\ UNCHANGED sent_at

\* The except clause of send_request (lines 346-349), reached from inside the
\* `async with`: the lock is released, the handle dropped, {} returned.
Except(c) ==
    /\ pc' = [pc EXCEPT ![c] = "done"]
    /\ ret' = [ret EXCEPT ![c] = "empty"]
    /\ websocket' = None
    /\ ws_lock' = None
    /\ sock' = [sock EXCEPT ![c] = None]
    /\ UNCHANGED sent_at

\* Lines 341-342 with the lock just taken: self.websocket.send(...) is called
\* on the handle as it is now.  On an absent handle the attribute access
\* raises and the except clause runs in the same step.
EnterLock(c, ws) ==
    IF ws = None
    THEN Except(c)
    ELSE /\ pc' = [pc EXCEPT ![c] = "sending"]
         /\ ws_lock' = c
         /\ websocket' = ws
         /\ sock' = [sock EXCEPT ![c] = ws]
         /\ sent_at' = [sent_at EXCEPT ![c] = [at |-> now, queued |-> pc[c] = "waitlock"]]
         /\ UNCHANGED ret

\* Mutant of LockStage: the send is entered without taking the lock.
LockStage_NoLock(c, ws) ==
    EnterLock(c, ws) /\ UNCHANGED ws_waiters

\* Line 341, `async with self._ws_lock`: asyncio.Lock.acquire takes a free
\* lock without suspending when nobody is queued, and queues otherwise.
LockStage(c, ws) ==
    IF ws_lock = None /\ ws_waiters = <<>>
    THEN EnterLock(c, ws) /\ UNCHANGED ws_waiters
    ELSE /\ pc' = [pc EXCEPT ![c] = "waitlock"]
         /\ ws_waiters' = Append(ws_waiters, c)
         /\ websocket' = ws
         /\ UNCHANGED <<ws_lock, ret, sock, sent_at>>

\* Mutant of TokenStage: an empty token is not checked for.
TokenStage_NoCheck(c, ws) ==
    /\ token' = generate_token(api_key, EpochSeconds(now))
    /\ request' = [request EXCEPT ![c] = request_id]
    /\ LockStage(c, ws)

\* Lines 321-338: the token, then the envelope, built from the request_id
\* of this moment.
TokenStage(c, ws) ==
    LET tk == generate_token(api_key, EpochSeconds(now)) IN
    /\ token' = tk
    /\ IF tk = 0
       THEN /\ pc' = [pc EXCEPT ![c] = "done"]
            /\ ret' = [ret EXCEPT ![c] = "empty"]
            /\ websocket' = ws
            /\ UNCHANGED <<ws_lock, ws_waiters, request, sock, sent_at>>
       ELSE /\ request' = [request EXCEPT ![c] = request_id]
            /\ LockStage(c, ws)

\* Lines 317-319: lazy reconnect.
SocketStage(c) ==
    IF websocket = None
    THEN /\ pc' = [pc EXCEPT ![c] = "connecting"]
         /\ connects' = [connects EXCEPT ![c] = @ + 1]
         /\ saw_none' = [saw_none EXCEPT ![c] = TRUE]
         /\ UNCHANGED <<websocket, ws_lock, ws_waiters, request, sock, sent_at, ret, token>>
    ELSE /\ TokenStage(c, websocket)
         /\ UNCHANGED <<connects, saw_none>>

\* Line 315: self._last_request_time = time.time(), then on to line 317.
Pace(c) ==
    /\ last_request_time' = now
    /\ prev_pass' = last_request_time
    /\ passes' = passes + 1
    /\ SocketStage(c)

\* Coroutines are numbered in the order in which they are started.
MayStart(c) ==
    /\ pc[c] = "idle"
    /\ IF c = 1 THEN TRUE ELSE pc[c - 1] # "idle"

\* send_request up to its first suspension: lines 311-314 and on.
CallSendRequest(c) ==
    /\ kind' = [kind EXCEPT ![c] = "send_request"]
    /\ LET elapsed == now - last_request_time IN
       IF elapsed < min_request_interval
       THEN /\ pc' = [pc EXCEPT ![c] = "sleeping"]
            /\ wake' = [wake EXCEPT ![c] = now + (min_request_interval - elapsed)]
            /\ UNCHANGED <<websocket, ws_lock, ws_waiters, request, sock, sent_at, ret,
                           token, connects, saw_none, last_request_time,
                           prev_pass, passes>>
       ELSE Pace(c) /\ UNCHANGED wake
    /\ UNCHANGED <<now, api_key, opened, request_id, wire, writes>>
    /\ UNCHANGED <<replyVars, lightVars>>

\* send_request is called by an entity or by the setup code.
StartSendRequest(c) ==
    /\ MayStart(c)
    /\ CallSendRequest(c)
    /\ UNCHANGED hostVars

\* asyncio.sleep returns, not before its delay has passed.
Wake(c) ==
    /\ pc[c] = "sleeping"
    /\ now >= wake[c]
    /\ Pace(c)
    /\ UNCHANGED <<now, api_key, opened, request_id, wire, writes, kind, wake>>
    /\ UNCHANGED <<replyVars, lightVars, hostVars>>

\* connect() is called by the host (async_setup_entry, config flow).
StartConnect(c) ==
    /\ MayStart(c)
    /\ kind' = [kind EXCEPT ![c] = "connect"]
    /\ pc' = [pc EXCEPT ![c] = "connecting"]
    /\ connects' = [connects EXCEPT ![c] = @ + 1]
    /\ UNCHANGED <<now, api_key, websocket, opened, request_id, last_request_time,
                   ws_lock, ws_waiters, wake, request, sock, sent_at, prev_pass, passes,
                   wire, writes, saw_none, ret, token>>
    /\ UNCHANGED <<replyVars, lightVars, hostVars>>

\* websockets.connect returns a connection: lines 281-283.
ConnectOk(c) ==
    /\ pc[c] = "connecting"
    /\ opened' = opened + 1
    /\ IF kind[c] = "connect"
       THEN /\ websocket' = opened + 1
            /\ pc' = [pc EXCEPT ![c] = "done"]
            /\ ret' = [ret EXCEPT ![c] = "true"]
            /\ UNCHANGED <<ws_lock, ws_waiters, request, sock, sent_at, token>>
       ELSE TokenStage(c, opened + 1)
    /\ UNCHANGED <<now, api_key, request_id, last_request_time, kind, wake,
                   prev_pass, passes, wire, connects, writes, saw_none>>
    /\ UNCHANGED <<replyVars, lightVars, hostVars>>

\* Mutant of ConnectFail: the connection attempt is made again.
ConnectFail_Retry(c) ==
    /\ pc[c] = "connecting"
    /\ connects' = [connects EXCEPT ![c] = @ + 1]
    /\ UNCHANGED <<now, api_key, websocket, opened, request_id, last_request_time,
                   ws_lock, ws_waiters, pc, kind, wake, request, sock, sent_at, prev_pass,
                   passes, wire, writes, saw_none, ret, token>>
    /\ UNCHANGED <<replyVars, lightVars, hostVars>>

\* Mutant of ConnectFail: send_request goes on after a failed connect().
ConnectFail_GoOn(c) ==
    /\ pc[c] = "connecting"
    /\ IF kind[c] = "connect"
       THEN /\ pc' = [pc EXCEPT ![c] = "done"]
            /\ ret' = [ret EXCEPT ![c] = "false"]
            /\ UNCHANGED <<websocket, ws_lock, ws_waiters, request, sock, sent_at, token>>
       ELSE TokenStage(c, websocket)
    /\ UNCHANGED <<now, api_key, opened, request_id, last_request_time, kind, wake,
                   prev_pass, passes, wire, connects, writes, saw_none>>
    /\ UNCHANGED <<replyVars, lightVars, hostVars>>

\* websockets.connect raises: lines 284-286, and line 319 in send_request.
ConnectFail(c) ==
    /\ pc[c] = "connecting"
    /\ pc' = [pc EXCEPT ![c] = "done"]
    /\ ret' = [ret EXCEPT ![c] = IF kind[c] = "connect" THEN "false" ELSE "empty"]
    /\ UNCHANGED <<now, api_key, websocket, opened, request_id, last_request_time,
                   ws_lock, ws_waiters, kind, wake, request, sock, sent_at, prev_pass,
                   passes, wire, connects, writes, saw_none, token>>
    /\ UNCHANGED <<replyVars, lightVars, hostVars>>

\* The lock is free and this coroutine is first in its queue.
AcquireLock(c) ==
    /\ pc[c] = "waitlock"
    /\ ws_lock = None
    /\ ws_waiters # <<>> /\ Head(ws_waiters) = c
    /\ ws_waiters' = Tail(ws_waiters)
    /\ EnterLock(c, websocket)
    /\ UNCHANGED <<now, api_key, opened, request_id, last_request_time, kind,
                   wake, request, prev_pass, passes, wire, connects, writes,
                   saw_none, token>>
    /\ UNCHANGED <<replyVars, lightVars, hostVars>>

\* The oldest unread reply on connection ws, as an index of inbox; 0 if none.
FirstPending(ws) ==
    LET hits == {i \in 1..Len(inbox) : inbox[i].sock = ws} IN
    IF hits = {} THEN 0 ELSE CHOOSE i \in hits : \A j \in hits : i <= j

Remove(seq, i) == SubSeq(seq, 1, i - 1) \o SubSeq(seq, i + 1, Len(seq))

\* websocket.send returned: lines 343-344.  The envelope is on the wire, the
\* counter is incremented and recv() is called on the handle as it is now.
\* An in-order controller answers the envelope on the connection it came by.
SendOk(c) ==
    /\ pc[c] = "sending"
    /\ inbox' = IF in_order
                THEN Append(inbox, [sock |-> sock[c], envelope |-> Len(wire) + 1])
                ELSE inbox
    /\ UNCHANGED <<in_order, got>>
    /\ wire' = Append(wire, [request_id |-> request[c], call |-> c, sock |-> sock[c],
                              at |-> sent_at[c].at, queued |-> sent_at[c].queued])
    /\ writes' = [writes EXCEPT ![c] = @ + 1]
    /\ request_id' = request_id + 1
    /\ IF websocket = None
       THEN Except(c)
       ELSE /\ pc' = [pc EXCEPT ![c] = "receiving"]
            /\ sock' = [sock EXCEPT ![c] = websocket]
            /\ UNCHANGED sent_at
            /\ UNCHANGED <<websocket, ws_lock, ret>>
    /\ UNCHANGED <<now, api_key, opened, last_request_time, ws_waiters, kind,
                   wake, request, prev_pass, passes, connects, saw_none, token>>
    /\ UNCHANGED <<lightVars, hostVars>>

\* Mutant of SendFault: the counter is incremented although send raised.
SendFault_Counted(c) ==
    /\ pc[c] = "sending"
    /\ Except(c)
    /\ request_id' = request_id + 1
    /\ UNCHANGED <<now, api_key, opened, last_request_time,
                   ws_waiters, kind, wake, request, prev_pass, passes, wire,
                   connects, writes, saw_none, token>>
    /\ UNCHANGED <<replyVars, lightVars, hostVars>>

\* websocket.send raised.
SendFault(c) ==
    /\ pc[c] = "sending"
    /\ Except(c)
    /\ UNCHANGED <<now, api_key, opened, request_id, last_request_time,
                   ws_waiters, kind, wake, request, prev_pass, passes, wire,
                   connects, writes, saw_none, token>>
    /\ UNCHANGED <<replyVars, lightVars, hostVars>>

\* websocket.recv returned a reply that json.loads accepts: line 345.  With
\* an in-order controller it is the oldest unread reply on that connection.
RecvOk(c) ==
    /\ pc[c] = "receiving"
    /\ IF in_order
       THEN /\ FirstPending(sock[c]) # 0
            /\ got' = [got EXCEPT ![c] = inbox[FirstPending(sock[c])].envelope]
            /\ inbox' = Remove(inbox, FirstPending(sock[c]))
       ELSE UNCHANGED <<inbox, got>>
    /\ UNCHANGED in_order
    /\ pc' = [pc EXCEPT ![c] = "done"]
    /\ ret' = [ret EXCEPT ![c] = "reply"]
    /\ ws_lock' = None
    /\ sock' = [sock EXCEPT ![c] = None]
    /\ UNCHANGED sent_at
    /\ UNCHANGED <<now, api_key, websocket, opened, request_id, last_request_time,
                   ws_waiters, kind, wake, request, prev_pass, passes, wire,
                   connects, writes, saw_none, token>>
    /\ UNCHANGED <<lightVars, hostVars>>

\* Mutant of RecvFault: the handle is kept after the fault.
RecvFault_KeepHandle(c) ==
    /\ pc[c] = "receiving"
    /\ Except_KeepHandle(c)
    /\ UNCHANGED <<in_order, inbox, got>>
    /\ UNCHANGED <<now, api_key, opened, request_id, last_request_time,
                   ws_waiters, kind, wake, request, prev_pass, passes, wire,
                   connects, writes, saw_none, token>>
    /\ UNCHANGED <<lightVars, hostVars>>

\* websocket.recv raised, or json.loads did on the reply it had returned.
RecvFault(c) ==
    /\ pc[c] = "receiving"
    /\ \/ UNCHANGED inbox
       \/ /\ FirstPending(sock[c]) # 0
          /\ inbox' = Remove(inbox, FirstPending(sock[c]))
    /\ UNCHANGED <<in_order, got>>
    /\ Except(c)
    /\ UNCHANGED <<now, api_key, opened, request_id, last_request_time,
                   ws_waiters, kind, wake, request, prev_pass, passes, wire,
                   connects, writes, saw_none, token>>
    /\ UNCHANGED <<lightVars, hostVars>>

\* The wall clock advances by one tick.
Tick ==
    /\ now < StartTime + MaxElapsed
    /\ now' = now + 1
    /\ UNCHANGED <<api_key, websocket, opened, request_id, last_request_time,
                   ws_lock, ws_waiters, pc, kind, wake, request, sock, sent_at, prev_pass,
                   passes, wire, connects, writes, saw_none, ret, token>>
    /\ UNCHANGED <<replyVars, lightVars, hostVars>>

\* generate_token() is called on its own.
GenerateToken ==
    /\ token' = generate_token(api_key, EpochSeconds(now))
    /\ UNCHANGED <<now, api_key, websocket, opened, request_id, last_request_time,
                   ws_lock, ws_waiters, pc, kind, wake, request, sock, sent_at, prev_pass,
                   passes, wire, connects, writes, saw_none, ret>>
    /\ UNCHANGED <<replyVars, lightVars, hostVars>>

\* ---- the set_preset and set_quickshot services
\* Device ids a service call may name.
DeviceIds == {"dev-1", "missing-1"}

\* The id of the "all devices" group (light.py line 54).
AllDevicesGroup == "00000000000000000000000000000000"

\* The keys the registry may get.
RegistryKeys == DeviceIds \cup {AllDevicesGroup}

\* What hass.data[DOMAIN]['devices'] holds for an id: nothing, the raw
\* device mapping stored by discovery (__init__.py line 224) or the
\* AmaranLight stored by the light platform (light.py line 88).  The id
\* "missing-1" is in no registry, and the platform stores no light under
\* the group id.
Registries ==
    {r \in [RegistryKeys -> {"absent", "dict", "light"}] :
        r["missing-1"] = "absent" /\ r[AllDevicesGroup] # "light"}

NoService == [name |-> "none", device_id |-> "none"]

\* async_setup_entry is not running.
NoSetup == [pc |-> "none", device_list |-> <<>>, i |-> 0]

\* 'devices': {}, no service call and no setup under way.
HostAtRest ==
    /\ devices = [d \in RegistryKeys |-> "absent"]
    /\ service = [c \in Calls |-> NoService]
    /\ setup = NoSetup

\* The handler returns (or raises) before anything is awaited.
ServiceReturn(c, r) ==
    /\ pc' = [pc EXCEPT ![c] = "done"]
    /\ ret' = [ret EXCEPT ![c] = r]
    /\ UNCHANGED <<now, api_key, websocket, opened, request_id, last_request_time,
                   ws_lock, ws_waiters, kind, wake, request, sock, sent_at,
                   prev_pass, passes, wire, connects, writes, saw_none, token>>
    /\ UNCHANGED <<replyVars, lightVars>>

\* Mutant of ServiceCall: the request is forwarded whatever the registry holds.
ServiceCall_NoCheck(c, name, device_id) ==
    /\ service' = [service EXCEPT ![c] = [name |-> name, device_id |-> device_id]]
    /\ UNCHANGED <<devices, setup>>
    /\ CallSendRequest(c)

\* The body shared by async_set_preset (lines 117-133) and
\* async_set_quickshot (lines 146-162), up to the first suspension of the
\* send_request it awaits.  Both keys of service.data are required by the
\* registered schema.  An id the registry lacks is logged and dropped; a
\* raw mapping has no _node_id, so line 132 (161) raises AttributeError.
ServiceCall(c, name, device_id) ==
    /\ service' = [service EXCEPT ![c] = [name |-> name, device_id |-> device_id]]
    /\ UNCHANGED <<devices, setup>>
    /\ IF devices[device_id] = "absent" THEN ServiceReturn(c, "dropped")
       ELSE IF devices[device_id] = "dict" THEN ServiceReturn(c, "raised")
       ELSE CallSendRequest(c)

async_set_preset(c) ==
    /\ MayStart(c)
    /\ \E device_id \in DeviceIds : ServiceCall(c, "set_preset", device_id)

async_set_quickshot(c) ==
    /\ MayStart(c)
    /\ \E device_id \in DeviceIds : ServiceCall(c, "set_quickshot", device_id)

\* ---- async_setup_entry: discovery, then the light platform
\* An entry of the controller's device list: its 'id', and its 'device_id'
\* ("" when the key is missing or its value falsy).
Device(id, device_id) == [id |-> id, device_id |-> device_id]

DeviceEntries ==
    {Device(id, device_id) : id \in {"dev-1", AllDevicesGroup},
                             device_id \in {"", "dev-1", AllDevicesGroup}}

\* The 'data' of a get_device_list reply.
DeviceLists == UNION {[1..n -> DeviceEntries] : n \in 0..MaxDevices}

\* __init__.py lines 220-224: the registry is emptied, then every entry with
\* a truthy device_id is stored under it.
Discovered(device_list) ==
    [k \in RegistryKeys |->
        IF \E i \in 1..Len(device_list) : device_list[i].device_id = k
        THEN "dict" ELSE "absent"]

\* light.py lines 52-58: the loop moves on to the first entry at or after i
\* that is not the group and awaits its node config; past the last entry
\* the entities are added (line 90) and setup is over.
SetupAt(device_list, i) ==
    LET rest == {j \in i..Len(device_list) : device_list[j].id # AllDevicesGroup} IN
    IF rest = {}
    THEN [pc |-> "done", device_list |-> device_list, i |-> Len(device_list) + 1]
    ELSE [pc |-> "get_node_config", device_list |-> device_list,
          i |-> CHOOSE j \in rest : \A k \in rest : j <= k]

\* __init__.py lines 76-110 and on to the await of line 217: the registry
\* is (still) empty; a failed connect() ends setup.
async_setup_entry ==
    /\ setup.pc = "none"
    /\ \E connected \in BOOLEAN :
          setup' = [setup EXCEPT !.pc = IF connected THEN "discovery" ELSE "failed"]
    /\ UNCHANGED <<devices, service>>
    /\ UNCHANGED <<apiVars, lightVars>>

\* __init__.py lines 217-228: the reply to get_device_list, then on to the
\* platform's own get_device_list (light.py line 36).
Discovery ==
    /\ setup.pc = "discovery"
    /\ \/ UNCHANGED devices
       \/ \E device_list \in DeviceLists : devices' = Discovered(device_list)
    /\ setup' = [setup EXCEPT !.pc = "platform"]
    /\ UNCHANGED service
    /\ UNCHANGED <<apiVars, lightVars>>

\* light.py lines 36-58: the platform's device list arrives.  Without 'data'
\* the platform returns; the quickshot and preset lists of lines 42-48 do
\* not concern the registry.
PlatformDeviceList ==
    /\ setup.pc = "platform"
    /\ \/ setup' = [setup EXCEPT !.pc = "done"]
       \/ \E device_list \in DeviceLists : setup' = SetupAt(device_list, 1)
    /\ UNCHANGED <<devices, service>>
    /\ UNCHANGED <<apiVars, lightVars>>

\* light.py lines 58-88: the node config of entry i arrives; with 'data' the
\* entity is built and stored under the entry's id.
NodeConfig ==
    /\ setup.pc = "get_node_config"
    /\ \E ok \in BOOLEAN :
          devices' = IF ok
                     THEN [devices EXCEPT ![setup.device_list[setup.i].id] = "light"]
                     ELSE devices
    /\ setup' = SetupAt(setup.device_list, setup.i + 1)
    /\ UNCHANGED service
    /\ UNCHANGED <<apiVars, lightVars>>

NextSetup ==
    \/ async_setup_entry
    \/ Discovery
    \/ PlatformDeviceList
    \/ NodeConfig

NextApi ==
    \/ \E c \in Calls : StartSendRequest(c)
    \/ \E c \in Calls : Wake(c)
    \/ \E c \in Calls : StartConnect(c)
    \/ \E c \in Calls : ConnectOk(c)
    \/ \E c \in Calls : ConnectFail(c)
    \/ \E c \in Calls : AcquireLock(c)
    \/ \E c \in Calls : SendOk(c)
    \/ \E c \in Calls : SendFault(c)
    \/ \E c \in Calls : RecvOk(c)
    \/ \E c \in Calls : RecvFault(c)
    \/ Tick


\* ------------------------------------------------------------- AmaranLight
\* An optional value: <<>> is Python's None, <<v>> a number, <<h, s>> or
\* <<r, g, b>> a tuple.
Null == <<>>

\* ColorMode members.
ONOFF == "onoff"
BRIGHTNESS == "brightness"
COLOR_TEMP == "color_temp"
HS == "hs"
RGB == "rgb"

\* async_setup_entry, lines 64-76: the colour modes handed to the entity.
SetupColorModes(cfg) ==
    {ONOFF, BRIGHTNESS}
        \cup (IF cfg.cct_support THEN {COLOR_TEMP} ELSE {})
        \cup (IF cfg.rgb_support \/ cfg.hsi_support THEN {HS, RGB} ELSE {})

\* Mutant of InitColorModes: the mutually exclusive modes are not removed.
InitColorModes_KeepAll(modes) ==
    LET m1 == modes \ {ONOFF} IN
    IF m1 \cap {COLOR_TEMP, HS, RGB} # {} THEN m1 \ {BRIGHTNESS} ELSE m1

\* AmaranLight.__init__, lines 109-140: self._color_modes.
InitColorModes(modes) ==
    LET m1 == modes \ {ONOFF}
        m2 == IF m1 \cap {COLOR_TEMP, HS, RGB} # {} THEN m1 \ {BRIGHTNESS} ELSE m1
        primary_modes == m2 \cap {COLOR_TEMP, HS, RGB}
        removed == {mode \in primary_modes :
                      \/ mode # COLOR_TEMP /\ COLOR_TEMP \in primary_modes
                      \/ /\ ~(mode # COLOR_TEMP /\ COLOR_TEMP \in primary_modes)
                         /\ mode # HS /\ HS \in primary_modes
                         /\ COLOR_TEMP \notin primary_modes}
    IN  IF Cardinality(primary_modes) > 1 THEN m2 \ removed ELSE m2

\* AmaranLight.__init__, lines 142-150: the default colour mode.
DefaultColorMode(modes) ==
    IF COLOR_TEMP \in modes THEN COLOR_TEMP
    ELSE IF HS \in modes THEN HS
    ELSE IF RGB \in modes THEN RGB
    ELSE BRIGHTNESS

\* ---- telemetry payloads
\* An item of a JSON mapping: t is "int", "float" or "str".
Item(key, t, v) == [key |-> key, t |-> t, v |-> v]

\* A response: k = "empty" for {} (or any falsy reply), "nodata" for a
\* mapping without 'data', "num" for a numeric data field of type t and
\* value v, "dict" for a mapping (its items in iteration order), "other"
\* for data of any other type.
Resp(k, t, v, items) == [k |-> k, t |-> t, v |-> v, items |-> items]
EmptyResp == Resp("empty", "str", 0, <<>>)
NoData == Resp("nodata", "str", 0, <<>>)
OtherData == Resp("other", "str", 0, <<>>)
NumData(t, v) == Resp("num", t, v, <<>>)
DictData(items) == Resp("dict", "str", 0, items)

\* isinstance(x, (int, float))
IsNumber(x) == x.t \in {"int", "float"}
\* isinstance(x, int)
IsInt(x) == x.t = "int"

\* key in d
HasKey(items, key) == \E i \in 1..Len(items) : items[i].key = key
\* d[key]
Lookup(items, key) == items[CHOOSE i \in 1..Len(items) : items[i].key = key]

\* str.lower() on the keys that occur.
Lower(key) ==
    CASE key = "Hue" -> "hue"
      [] key = "Sat" -> "sat"
      [] key = "R" -> "r"
      [] key = "G" -> "g"
      [] key = "B" -> "b"
      [] OTHER -> key

\* The for/else loops of lines 415-421 and 457-463: the first numeric value
\* of the mapping, in iteration order.
FirstNumeric(items) ==
    LET hits == {i \in 1..Len(items) : IsNumber(items[i])} IN
    IF hits = {} THEN Null
    ELSE <<items[CHOOSE i \in hits : \A j \in hits : i <= j].v>>

\* int(x * 255 / 1000)
ToBrightness(intensity) == (intensity * 255) \div 1000
\* int(x * 1000 / 255)
ToIntensity(b) == (b * 1000) \div 255

\* Lines 401-423: the intensity a get_intensity reply resolves to, or Null.
DecodeIntensity(r) ==
    IF r.k = "num" THEN <<r.v>>
    ELSE IF r.k = "dict"
    THEN LET intensity_value ==
                 IF HasKey(r.items, "intensity")
                 THEN Lookup(r.items, "intensity")
                 ELSE Item("intensity", "int", 0)
         IN  IF IsNumber(intensity_value)
             THEN <<intensity_value.v>>
             ELSE FirstNumeric(r.items)
    ELSE Null

\* Mutant of DecodeCct: only a direct number is accepted.
DecodeCct_DirectOnly(r) ==
    IF r.k = "num" THEN <<r.v>> ELSE Null

\* Lines 444-465: the colour temperature a get_cct reply resolves to, or Null.
DecodeCct(r) ==
    IF r.k = "num" THEN <<r.v>>
    ELSE IF r.k = "dict"
    THEN IF HasKey(r.items, "cct") /\ IsNumber(Lookup(r.items, "cct"))
         THEN <<Lookup(r.items, "cct").v>>
         ELSE FirstNumeric(r.items)
    ELSE Null

\* The loop of lines 489-495 (and 532-540): the value kept for `key`, the
\* last matching item at or before the item at which every key was found.
RECURSIVE ScanKeys(_, _, _, _, _)
ScanKeys(items, i, keys, found, intOnly) ==
    IF i > Len(items) \/ \A k \in keys : found[k] # Null
    THEN found
    ELSE LET it == items[i]
             lk == Lower(it.key)
             ok == IF intOnly THEN IsInt(it) ELSE IsNumber(it)
         IN  ScanKeys(items, i + 1, keys,
                      IF lk \in keys /\ ok
                      THEN [found EXCEPT ![lk] = <<it.v>>]
                      ELSE found,
                      intOnly)

\* Lines 477-507: the (hue, sat) pair a get_hsi reply resolves to, or Null.
DecodeHsi(r) ==
    IF r.k = "dict"
    THEN IF HasKey(r.items, "hue") /\ HasKey(r.items, "sat")
         THEN IF IsNumber(Lookup(r.items, "hue")) /\ IsNumber(Lookup(r.items, "sat"))
              THEN <<Lookup(r.items, "hue").v, Lookup(r.items, "sat").v>>
              ELSE Null
         ELSE LET f == ScanKeys(r.items, 1, {"hue", "sat"},
                                [k \in {"hue", "sat"} |-> Null], FALSE)
              IN  IF f["hue"] # Null /\ f["sat"] # Null
                  THEN <<f["hue"][1], f["sat"][1]>>
                  ELSE Null
    ELSE IF r.k = "num" THEN <<r.v, 100>>
    ELSE Null

\* Lines 519-552: the (r, g, b) triple a get_rgb reply resolves to, or Null.
DecodeRgb(r) ==
    IF r.k = "dict"
    THEN IF HasKey(r.items, "r") /\ HasKey(r.items, "g") /\ HasKey(r.items, "b")
         THEN IF /\ IsInt(Lookup(r.items, "r"))
                 /\ IsInt(Lookup(r.items, "g"))
                 /\ IsInt(Lookup(r.items, "b"))
              THEN <<Lookup(r.items, "r").v, Lookup(r.items, "g").v,
                     Lookup(r.items, "b").v>>
              ELSE Null
         ELSE LET f == ScanKeys(r.items, 1, {"r", "g", "b"},
                                [k \in {"r", "g", "b"} |-> Null], TRUE)
              IN  IF f["r"] # Null /\ f["g"] # Null /\ f["b"] # Null
                  THEN <<f["r"][1], f["g"][1], f["b"][1]>>
                  ELSE Null
    ELSE IF r.k = "num" THEN <<r.v, r.v, r.v>>
    ELSE Null


\* ---- the entity
\* Capability flags and Kelvin bounds a controller may report.
Configs ==
    [cct_support : BOOLEAN, rgb_support : BOOLEAN, hsi_support : BOOLEAN,
     cct_min : {2000}, cct_max : {10000}]
        \cup
    [cct_support : {TRUE}, rgb_support : {FALSE}, hsi_support : {FALSE},
     cct_min : {2700}, cct_max : {5000}]

\* Attributes a turn_on call may carry; Null when the attribute is absent.
Kwargs ==
    [brightness : {Null, <<0>>, <<255>>},
     color_temp_kelvin : {Null, <<1000>>, <<5600>>},
     hs_color : {Null, <<120, 100>>},
     rgb_color : {Null, <<255, 0, 0>>}]

NoKwargs ==
    [brightness |-> Null, color_temp_kelvin |-> Null, hs_color |-> Null,
     rgb_color |-> Null]

\* Replies of the controller to the four telemetry queries.
IntensityReplies ==
    {EmptyResp, NoData, OtherData,
     NumData("int", 0), NumData("float", 500),
     DictData(<<Item("intensity", "int", 500)>>),
     DictData(<<Item("intensity", "str", 0), Item("level", "int", 500)>>),
     DictData(<<Item("level", "int", 500)>>),
     DictData(<<Item("intensity", "str", 0)>>)}

CctReplies ==
    {EmptyResp, OtherData,
     NumData("int", 5600),
     DictData(<<Item("cct", "int", 5600)>>),
     DictData(<<Item("cct", "str", 0), Item("kelvin", "int", 3200)>>),
     DictData(<<Item("name", "str", 0), Item("kelvin", "int", 3200)>>),
     DictData(<<Item("name", "str", 0)>>)}

HsiReplies ==
    {EmptyResp, OtherData,
     NumData("int", 30),
     DictData(<<Item("hue", "int", 120), Item("sat", "int", 100)>>),
     DictData(<<Item("hue", "str", 0), Item("sat", "int", 100)>>),
     DictData(<<Item("Hue", "int", 30), Item("Sat", "int", 100)>>),
     DictData(<<Item("hue", "int", 120)>>)}

RgbReplies ==
    {EmptyResp, OtherData,
     NumData("float", 7),
     DictData(<<Item("r", "int", 255), Item("g", "int", 0), Item("b", "int", 0)>>),
     DictData(<<Item("r", "float", 255), Item("g", "int", 0), Item("b", "int", 0)>>),
     DictData(<<Item("R", "int", 7), Item("G", "int", 7), Item("B", "int", 7)>>)}

\* A request handed to self._api.send_request.
Req(action, args) == [action |-> action, args |-> args]

\* The command coroutine when no command is running.  sent lists the
\* requests the running command has handed to send_request so far.
CmdIdle ==
    [pc |-> "idle", kwargs |-> NoKwargs, intensity |-> 0,
     new_color_mode |-> "none", kelvin |-> 0, sent |-> <<>>]

\* The poll coroutine when no poll is running.  sent lists the requests
\* the running poll has handed to send_request so far.
UpdIdle ==
    [pc |-> "idle", new_brightness |-> 0, new_is_on |-> FALSE,
     new_color_temp |-> Null, new_hs_color |-> Null, new_rgb_color |-> Null,
     new_color_mode |-> "none", sent |-> <<>>]

\* History of a poll: no reply consumed, no command step seen.  The field
\* kept tells whether the specification records the history at all.
EntityState(cm, b, on, ct, hs, rgb) ==
    [color_mode |-> cm, brightness |-> b, is_on |-> on,
     color_temp |-> ct, hs_color |-> hs, rgb_color |-> rgb]
NoReply ==
    [query |-> "none", r |-> EmptyResp,
     before |-> EntityState(BRIGHTNESS, 255, FALSE, Null, Null, Null)]
PollFresh ==
    [reply |-> NoReply, clean |-> TRUE, kept |-> TRUE,
     race |-> "off", set_brightness |-> FALSE, trip |-> FALSE, written |-> Null]
PollUnkept == [PollFresh EXCEPT !.kept = FALSE]

\* History of a poll raced by a command: race is "read" once the poll has
\* read an intensity from its get_intensity reply, "begun" once a first
\* command has begun (sent its first request) after that, "returned" once
\* that command has returned, "spoiled" when a command began at another
\* moment, "off" when the specification does not record races;
\* set_brightness tells whether the command carried a brightness.
PollRace == [PollUnkept EXCEPT !.race = "none"]

\* History of a round trip: with trip set, written is the intensity of the
\* last set_intensity request, until a poll has read an intensity reply.
PollTrip == [PollUnkept EXCEPT !.trip = TRUE]

\* A poll begins.
PollBegun ==
    poll' = IF poll.kept THEN PollFresh
            ELSE IF poll.race # "off" THEN PollRace
            ELSE poll

\* A command step ran while races are recorded.
Raced ==
    IF cmd.pc = "idle"
    THEN IF upd.pc # "idle" /\ poll.race = "read"
         THEN [poll EXCEPT !.race = "begun",
                           !.set_brightness = cmd'.kwargs.brightness # Null]
         ELSE [poll EXCEPT !.race = "spoiled", !.set_brightness = FALSE]
    ELSE IF poll.race = "begun" /\ cmd'.pc = "idle"
         THEN [poll EXCEPT !.race = "returned"]
         ELSE poll

\* A command step ran: a running poll is no longer undisturbed.
CommandSeen ==
    poll' = IF poll.kept
            THEN [poll EXCEPT !.reply = NoReply, !.clean = upd.pc = "idle"]
            ELSE IF poll.race # "off" THEN Raced
            ELSE IF poll.trip /\ cmd'.pc = "set_intensity"
            THEN [poll EXCEPT !.written = <<cmd'.intensity>>]
            ELSE poll

\* The running poll consumed reply r to query, the entity being as it is.
PollGot(query, r) ==
    poll' = IF poll.kept
            THEN [poll EXCEPT !.reply =
                     [query |-> query, r |-> r,
                      before |-> EntityState(color_mode, brightness, is_on,
                                             color_temp, hs_color, rgb_color)]]
            ELSE IF /\ poll.race = "none" /\ query = "get_intensity"
                    /\ DecodeIntensity(r) # Null
            THEN [poll EXCEPT !.race = "read"]
            ELSE IF poll.trip /\ query = "get_intensity"
            THEN [poll EXCEPT !.written = Null]
            ELSE poll

\* async_setup_entry and AmaranLight.__init__ for one device.
InitLight ==
    /\ config \in Configs
    /\ color_modes = InitColorModes(SetupColorModes(config))
    /\ color_mode = DefaultColorMode(color_modes)
    /\ is_on = FALSE
    /\ brightness = 255
    /\ color_temp = Null
    /\ hs_color = Null
    /\ rgb_color = Null
    /\ cmd = CmdIdle
    /\ upd = UpdIdle
    /\ poll = PollUnkept

\* ---- async_turn_on
\* The awaits of async_turn_on in program order.
Rank(stage) ==
    CASE stage = "start" -> 0
      [] stage = "set_intensity" -> 1
      [] stage = "set_cct" -> 2
      [] stage = "set_hsi" -> 3
      [] stage = "set_rgb" -> 4
      [] stage = "on_plain" -> 5
      [] OTHER -> 6

\* Mutant of NextOnStage: every colour attribute present is applied.
NextOnStage_All(stage, kw, ncm) ==
    IF Rank(stage) < 2 /\ kw.color_temp_kelvin # Null THEN "set_cct"
    ELSE IF Rank(stage) < 3 /\ kw.hs_color # Null THEN "set_hsi"
    ELSE IF Rank(stage) < 4 /\ kw.rgb_color # Null THEN "set_rgb"
    ELSE IF Rank(stage) < 5 /\ kw = NoKwargs THEN "on_plain"
    ELSE "end"

\* The next await of async_turn_on after `stage`: the conditions of lines
\* 279, 295, 317 and 337.
NextOnStage(stage, kw, ncm) ==
    IF Rank(stage) < 2 /\ kw.color_temp_kelvin # Null /\ ncm = "none" THEN "set_cct"
    ELSE IF Rank(stage) < 3 /\ kw.hs_color # Null /\ ncm = "none" THEN "set_hsi"
    ELSE IF Rank(stage) < 4 /\ kw.rgb_color # Null /\ ncm = "none" THEN "set_rgb"
    ELSE IF Rank(stage) < 5 /\ kw = NoKwargs THEN "on_plain"
    ELSE "end"

\* max(self._cct_min, min(self._cct_max, kelvin))
Max(a, b) == IF a >= b THEN a ELSE b
Min(a, b) == IF a <= b THEN a ELSE b
\* Mutant of ClampKelvin: the upper bound is not applied.
ClampKelvin_NoUpper(kelvin) == Max(config.cct_min, kelvin)

ClampKelvin(kelvin) == Max(config.cct_min, Min(config.cct_max, kelvin))

\* Mutant of TurnOnProceed: a zero brightness is not forced to full scale.
TurnOnProceed_NoForce(stage, c, b, ct, hs, rgb) ==
    LET nxt == NextOnStage(stage, c.kwargs, c.new_color_mode) IN
    /\ color_temp' = ct
    /\ hs_color' = hs
    /\ rgb_color' = rgb
    /\ CASE nxt = "set_cct" ->
              LET kelvin == ClampKelvin(c.kwargs.color_temp_kelvin[1]) IN
              /\ cmd' = [c EXCEPT !.pc = nxt, !.kelvin = kelvin,
                                  !.sent = Append(@, Req("set_cct", <<kelvin>>))]
              /\ brightness' = b
              /\ UNCHANGED <<color_mode, is_on>>
         [] nxt = "set_hsi" ->
              /\ cmd' = [c EXCEPT !.pc = nxt,
                                  !.sent = Append(@, Req("set_hsi",
                                      c.kwargs.hs_color \o <<c.intensity>>))]
              /\ brightness' = b
              /\ UNCHANGED <<color_mode, is_on>>
         [] nxt = "set_rgb" ->
              /\ cmd' = [c EXCEPT !.pc = nxt,
                                  !.sent = Append(@, Req("set_rgb",
                                      c.kwargs.rgb_color \o <<c.intensity>>))]
              /\ brightness' = b
              /\ UNCHANGED <<color_mode, is_on>>
         [] nxt = "on_plain" ->
              LET intensity == IF b = 0 THEN 1000 ELSE c.intensity IN
              /\ cmd' = [c EXCEPT !.pc = nxt, !.intensity = intensity,
                                  !.sent = Append(@, Req("set_intensity", <<intensity>>))]
              /\ brightness' = b
              /\ UNCHANGED <<color_mode, is_on>>
         [] OTHER ->
              /\ cmd' = CmdIdle
              /\ brightness' = b
              /\ color_mode' = IF c.new_color_mode # "none"
                               THEN c.new_color_mode ELSE color_mode
              /\ is_on' = TRUE

\* async_turn_on from just after the await `stage` up to its next await or
\* its end.  c holds the locals, b..rgb the entity's fields as the code
\* before this point has left them.
TurnOnProceed(stage, c, b, ct, hs, rgb) ==
    LET nxt == NextOnStage(stage, c.kwargs, c.new_color_mode) IN
    /\ color_temp' = ct
    /\ hs_color' = hs
    /\ rgb_color' = rgb
    /\ CASE nxt = "set_cct" ->
              LET kelvin == ClampKelvin(c.kwargs.color_temp_kelvin[1]) IN
              /\ cmd' = [c EXCEPT !.pc = nxt, !.kelvin = kelvin,
                                  !.sent = Append(@, Req("set_cct", <<kelvin>>))]
              /\ brightness' = b
              /\ UNCHANGED <<color_mode, is_on>>
         [] nxt = "set_hsi" ->
              /\ cmd' = [c EXCEPT !.pc = nxt,
                                  !.sent = Append(@, Req("set_hsi",
                                      c.kwargs.hs_color \o <<c.intensity>>))]
              /\ brightness' = b
              /\ UNCHANGED <<color_mode, is_on>>
         [] nxt = "set_rgb" ->
              /\ cmd' = [c EXCEPT !.pc = nxt,
                                  !.sent = Append(@, Req("set_rgb",
                                      c.kwargs.rgb_color \o <<c.intensity>>))]
              /\ brightness' = b
              /\ UNCHANGED <<color_mode, is_on>>
         [] nxt = "on_plain" ->
              LET intensity == IF b = 0 THEN 1000 ELSE c.intensity IN
              /\ cmd' = [c EXCEPT !.pc = nxt, !.intensity = intensity,
                                  !.sent = Append(@, Req("set_intensity", <<intensity>>))]
              /\ brightness' = IF b = 0 THEN 255 ELSE b
              /\ UNCHANGED <<color_mode, is_on>>
         [] OTHER ->
              /\ cmd' = CmdIdle
              /\ brightness' = b
              /\ color_mode' = IF c.new_color_mode # "none"
                               THEN c.new_color_mode ELSE color_mode
              /\ is_on' = TRUE

\* async_turn_on(**kwargs) is called: lines 262-276 up to the first await.
TurnOnBegin(kw) ==
    LET c0 == [CmdIdle EXCEPT
                  !.kwargs = kw,
                  !.intensity = IF brightness # 0 THEN ToIntensity(brightness) ELSE 1000]
    IN  IF kw.brightness # Null
        THEN LET intensity == ToIntensity(kw.brightness[1]) IN
             /\ cmd' = [c0 EXCEPT !.pc = "set_intensity", !.intensity = intensity,
                                  !.sent = <<Req("set_intensity", <<intensity>>)>>]
             /\ UNCHANGED <<brightness, color_temp, hs_color, rgb_color,
                            color_mode, is_on>>
        ELSE TurnOnProceed("start", c0, brightness, color_temp, hs_color, rgb_color)

\* async_turn_off is called: lines 364-369.
TurnOffBegin ==
    /\ cmd' = [CmdIdle EXCEPT !.pc = "off",
                                    !.sent = <<Req("set_intensity", <<0>>)>>]
    /\ UNCHANGED <<brightness, color_temp, hs_color, rgb_color, color_mode, is_on>>

async_turn_on ==
    /\ cmd.pc = "idle"
    /\ \E kw \in Kwargs : TurnOnBegin(kw)
    /\ CommandSeen
    /\ UNCHANGED <<config, color_modes, upd>>
    /\ UNCHANGED <<apiVars, hostVars>>

async_turn_off ==
    /\ cmd.pc = "idle"
    /\ TurnOffBegin
    /\ CommandSeen
    /\ UNCHANGED <<config, color_modes, upd>>
    /\ UNCHANGED <<apiVars, hostVars>>

\* async_toggle: lines 377-380.
async_toggle ==
    /\ cmd.pc = "idle"
    /\ \E kw \in Kwargs : IF is_on THEN TurnOffBegin ELSE TurnOnBegin(kw)
    /\ CommandSeen
    /\ UNCHANGED <<config, color_modes, upd>>
    /\ UNCHANGED <<apiVars, hostVars>>

\* The send_request awaited by the running command returns (its reply is
\* not looked at): the assignments after that await, then on.
CommandReturn ==
    /\ cmd.pc # "idle"
    /\ CASE cmd.pc = "set_intensity" ->
              TurnOnProceed(cmd.pc, cmd, cmd.kwargs.brightness[1],
                            color_temp, hs_color, rgb_color)
         [] cmd.pc = "set_cct" ->
              TurnOnProceed(cmd.pc, [cmd EXCEPT !.new_color_mode = COLOR_TEMP],
                            brightness, <<cmd.kelvin>>, Null, Null)
         [] cmd.pc = "set_hsi" ->
              TurnOnProceed(cmd.pc, [cmd EXCEPT !.new_color_mode = HS],
                            brightness, Null, cmd.kwargs.hs_color, Null)
         [] cmd.pc = "set_rgb" ->
              TurnOnProceed(cmd.pc, [cmd EXCEPT !.new_color_mode = RGB],
                            brightness, Null, Null, cmd.kwargs.rgb_color)
         [] cmd.pc = "on_plain" ->
              TurnOnProceed(cmd.pc, cmd, brightness, color_temp, hs_color, rgb_color)
         [] OTHER ->
              /\ is_on' = FALSE
              /\ cmd' = CmdIdle
              /\ UNCHANGED <<brightness, color_temp, hs_color, rgb_color, color_mode>>
    /\ CommandSeen
    /\ UNCHANGED <<config, color_modes, upd>>
    /\ UNCHANGED <<apiVars, hostVars>>

\* ---- async_update
\* The awaits of async_update in program order.
QueryRank(query) ==
    CASE query = "get_intensity" -> 0
      [] query = "get_cct" -> 1
      [] query = "get_hsi" -> 2
      [] query = "get_rgb" -> 3
      [] OTHER -> 4

\* Mutant of NextQuery: the supported modes are not looked at.
NextQuery_AnyMode(query, ncm) ==
    IF QueryRank(query) < 1 /\ ncm \in {"none", COLOR_TEMP} THEN "get_cct"
    ELSE IF QueryRank(query) < 2 /\ ncm \in {"none", HS} THEN "get_hsi"
    ELSE IF QueryRank(query) < 3 /\ ncm \in {"none", RGB} THEN "get_rgb"
    ELSE "end"

\* The next query of async_update after `query`: the conditions of lines
\* 437-438, 470-471 and 512-513.
NextQuery(query, ncm) ==
    IF /\ QueryRank(query) < 1 /\ COLOR_TEMP \in color_modes
       /\ ncm \in {"none", COLOR_TEMP} THEN "get_cct"
    ELSE IF /\ QueryRank(query) < 2 /\ HS \in color_modes
            /\ ncm \in {"none", HS} THEN "get_hsi"
    ELSE IF /\ QueryRank(query) < 3 /\ RGB \in color_modes
            /\ ncm \in {"none", RGB} THEN "get_rgb"
    ELSE "end"

\* Mutant of UpdateProceed: the final write stores the resolved colour
\* value without clearing the other two.
UpdateProceed_NoClear(query, u) ==
    LET nxt == NextQuery(query, u.new_color_mode) IN
    IF nxt # "end"
    THEN /\ upd' = [u EXCEPT !.pc = nxt, !.sent = Append(@, Req(nxt, <<>>))]
         /\ UNCHANGED <<brightness, is_on, color_temp, hs_color, rgb_color, color_mode>>
    ELSE /\ upd' = UpdIdle
         /\ brightness' = u.new_brightness
         /\ is_on' = u.new_is_on
         /\ IF u.new_color_mode = COLOR_TEMP /\ u.new_color_temp # Null
            THEN /\ color_temp' = u.new_color_temp
                 /\ UNCHANGED <<hs_color, rgb_color>>
            ELSE IF u.new_color_mode = HS /\ u.new_hs_color # Null
            THEN /\ hs_color' = u.new_hs_color
                 /\ UNCHANGED <<color_temp, rgb_color>>
            ELSE IF u.new_color_mode = RGB /\ u.new_rgb_color # Null
            THEN /\ rgb_color' = u.new_rgb_color
                 /\ UNCHANGED <<color_temp, hs_color>>
            ELSE UNCHANGED <<color_temp, hs_color, rgb_color>>
         /\ color_mode' = IF u.new_color_mode # "none"
                          THEN u.new_color_mode ELSE color_mode

\* Mutant of UpdateProceed: a poll that resolved no colour value clears the
\* stored ones.
UpdateProceed_NullOnMiss(query, u) ==
    LET nxt == NextQuery(query, u.new_color_mode) IN
    IF nxt # "end"
    THEN /\ upd' = [u EXCEPT !.pc = nxt, !.sent = Append(@, Req(nxt, <<>>))]
         /\ UNCHANGED <<brightness, is_on, color_temp, hs_color, rgb_color, color_mode>>
    ELSE /\ upd' = UpdIdle
         /\ brightness' = u.new_brightness
         /\ is_on' = u.new_is_on
         /\ color_temp' = IF u.new_color_mode = COLOR_TEMP THEN u.new_color_temp ELSE Null
         /\ hs_color' = IF u.new_color_mode = HS THEN u.new_hs_color ELSE Null
         /\ rgb_color' = IF u.new_color_mode = RGB THEN u.new_rgb_color ELSE Null
         /\ color_mode' = IF u.new_color_mode # "none"
                          THEN u.new_color_mode ELSE color_mode

\* async_update from just after the reply to `query` up to its next await,
\* or through the final write of lines 556-579.  u holds the locals.
UpdateProceed(query, u) ==
    LET nxt == NextQuery(query, u.new_color_mode) IN
    IF nxt # "end"
    THEN /\ upd' = [u EXCEPT !.pc = nxt, !.sent = Append(@, Req(nxt, <<>>))]
         /\ UNCHANGED <<brightness, is_on, color_temp, hs_color, rgb_color, color_mode>>
    ELSE /\ upd' = UpdIdle
         /\ brightness' = u.new_brightness
         /\ is_on' = u.new_is_on
         /\ IF u.new_color_mode = COLOR_TEMP /\ u.new_color_temp # Null
            THEN /\ color_temp' = u.new_color_temp
                 /\ hs_color' = Null
                 /\ rgb_color' = Null
            ELSE IF u.new_color_mode = HS /\ u.new_hs_color # Null
            THEN /\ color_temp' = Null
                 /\ hs_color' = u.new_hs_color
                 /\ rgb_color' = Null
            ELSE IF u.new_color_mode = RGB /\ u.new_rgb_color # Null
            THEN /\ color_temp' = Null
                 /\ hs_color' = Null
                 /\ rgb_color' = u.new_rgb_color
            ELSE UNCHANGED <<color_temp, hs_color, rgb_color>>
         /\ color_mode' = IF u.new_color_mode # "none"
                          THEN u.new_color_mode ELSE color_mode

\* async_update is called: lines 387-400.
async_update ==
    /\ upd.pc = "idle"
    /\ upd' = [UpdIdle EXCEPT
                  !.pc = "get_intensity",
                  !.sent = <<Req("get_intensity", <<>>)>>,
                  !.new_brightness = brightness,
                  !.new_is_on = is_on]
    /\ PollBegun
    /\ UNCHANGED <<config, color_modes, color_mode, is_on, brightness, color_temp,
                   hs_color, rgb_color, cmd>>
    /\ UNCHANGED <<apiVars, hostVars>>

\* Lines 429-434: the current mode is kept when the device supports it.
KeepMode ==
    IF color_mode = COLOR_TEMP /\ COLOR_TEMP \in color_modes THEN COLOR_TEMP
    ELSE IF color_mode = HS /\ HS \in color_modes THEN HS
    ELSE IF color_mode = RGB /\ RGB \in color_modes THEN RGB
    ELSE "none"

\* Lines 401-434 for the get_intensity reply r.
IntensityReply(r) ==
    LET v == DecodeIntensity(r)
        u == IF v = Null THEN upd
             ELSE [upd EXCEPT !.new_brightness = ToBrightness(v[1]),
                              !.new_is_on = v[1] > 0]
    IN  PollGot("get_intensity", r) /\ UpdateProceed("get_intensity", [u EXCEPT !.new_color_mode = KeepMode])

\* The get_intensity request returns r: lines 401-434.
UpdateIntensity ==
    /\ upd.pc = "get_intensity"
    /\ \E r \in IntensityReplies : IntensityReply(r)
    /\ UNCHANGED <<config, color_modes, cmd>>
    /\ UNCHANGED <<apiVars, hostVars>>

\* async_turn_on(brightness=b) is called on an entity that is not being
\* polled, for any external brightness b.
WriteBrightness ==
    /\ cmd.pc = "idle"
    /\ upd.pc = "idle"
    /\ \E b \in 0..MaxBrightness : TurnOnBegin([NoKwargs EXCEPT !.brightness = <<b>>])
    /\ CommandSeen
    /\ UNCHANGED <<config, color_modes, upd>>
    /\ UNCHANGED <<apiVars, hostVars>>

\* The get_intensity request returns the intensity that the last command
\* has written, as a direct number, once that command has returned.
ReadBack ==
    /\ upd.pc = "get_intensity"
    /\ cmd.pc = "idle"
    /\ poll.written # Null
    /\ IntensityReply(NumData("int", poll.written[1]))
    /\ UNCHANGED <<config, color_modes, cmd>>
    /\ UNCHANGED <<apiVars, hostVars>>

\* async_update is called once the command has returned.
PollAfterWrite ==
    /\ cmd.pc = "idle"
    /\ poll.written # Null
    /\ async_update

NextTrip ==
    \/ WriteBrightness
    \/ CommandReturn
    \/ PollAfterWrite
    \/ ReadBack

\* The get_cct request returns r: lines 444-467.
UpdateCct ==
    /\ upd.pc = "get_cct"
    /\ \E r \in CctReplies :
          LET v == DecodeCct(r)
              u == IF v = Null THEN upd
                   ELSE [upd EXCEPT !.new_color_temp = v,
                                    !.new_color_mode = COLOR_TEMP]
          IN  PollGot("get_cct", r) /\ UpdateProceed("get_cct", u)
    /\ UNCHANGED <<config, color_modes, cmd>>
    /\ UNCHANGED <<apiVars, hostVars>>

\* The get_hsi request returns r: lines 477-509.
UpdateHsi ==
    /\ upd.pc = "get_hsi"
    /\ \E r \in HsiReplies :
          LET v == DecodeHsi(r)
              u == IF v = Null THEN upd
                   ELSE [upd EXCEPT !.new_hs_color = v, !.new_color_mode = HS]
          IN  PollGot("get_hsi", r) /\ UpdateProceed("get_hsi", u)
    /\ UNCHANGED <<config, color_modes, cmd>>
    /\ UNCHANGED <<apiVars, hostVars>>

\* The get_rgb request returns r: lines 519-554.
UpdateRgb ==
    /\ upd.pc = "get_rgb"
    /\ \E r \in RgbReplies :
          LET v == DecodeRgb(r)
              u == IF v = Null THEN upd
                   ELSE [upd EXCEPT !.new_rgb_color = v, !.new_color_mode = RGB]
          IN  PollGot("get_rgb", r) /\ UpdateProceed("get_rgb", u)
    /\ UNCHANGED <<config, color_modes, cmd>>
    /\ UNCHANGED <<apiVars, hostVars>>

\* UpdateRgb is no disjunct: InitColorModes leaves RGB in no device set up
\* from capability flags, so NextQuery never yields get_rgb.
NextLight ==
    \/ async_turn_on
    \/ async_turn_off
    \/ async_toggle
    \/ CommandReturn
    \/ async_update
    \/ UpdateIntensity
    \/ UpdateCct
    \/ UpdateHsi

\* ----------------------------------------------------------- specifications
\* A device that is never commanded nor polled.
LightAtRest ==
    /\ config = [cct_support |-> FALSE, rgb_support |-> FALSE, hsi_support |-> FALSE,
                 cct_min |-> 2000, cct_max |-> 10000]
    /\ color_modes = InitColorModes(SetupColorModes(config))
    /\ color_mode = DefaultColorMode(color_modes)
    /\ is_on = FALSE
    /\ brightness = 255
    /\ color_temp = Null
    /\ hs_color = Null
    /\ rgb_color = Null
    /\ cmd = CmdIdle
    /\ upd = UpdIdle
    /\ poll = PollUnkept

\* The session under concurrent callers.
Init == InitApi /\ LightAtRest /\ HostAtRest

Next == NextApi

Spec == Init /\ [][Next]_vars

\* generate_token over every key.
\* Wall-clock readings whose decimal strings differ in length.
TokenClocks == {StartTime, 95, 1000, 1700000000}

InitToken ==
    /\ now \in TokenClocks
    /\ api_key \in -1..MaxKeyBytes
    /\ InitSession
    /\ in_order = FALSE
    /\ LightAtRest
    /\ HostAtRest

NextToken == GenerateToken \/ Tick

SpecToken == InitToken /\ [][NextToken]_vars

\* One light entity under commands and polls; its session is left aside.
InitLightSpec ==
    /\ now = StartTime
    /\ api_key = 32
    /\ InitSession
    /\ in_order = FALSE
    /\ InitLight
    /\ HostAtRest

SpecLight == InitLightSpec /\ [][NextLight]_vars

\* The same entity with the history of its polls kept, on one device of each
\* supported colour mode set.
PollConfigs ==
    {cfg \in Configs :
        /\ cfg.rgb_support = FALSE
        /\ ~(cfg.cct_support /\ cfg.hsi_support)
        /\ cfg.cct_min = 2000}

InitPoll ==
    /\ now = StartTime
    /\ api_key = 32
    /\ InitSession
    /\ in_order = FALSE
    /\ HostAtRest
    /\ config \in PollConfigs
    /\ color_modes = InitColorModes(SetupColorModes(config))
    /\ color_mode = DefaultColorMode(color_modes)
    /\ is_on = FALSE
    /\ brightness = 255
    /\ color_temp = Null
    /\ hs_color = Null
    /\ rgb_color = Null
    /\ cmd = CmdIdle
    /\ upd = UpdIdle
    /\ poll = PollFresh

SpecPoll == InitPoll /\ [][NextLight]_vars

\* The same entity with the races between its polls and commands recorded.
InitRace ==
    /\ now = StartTime
    /\ api_key = 32
    /\ InitSession
    /\ in_order = FALSE
    /\ HostAtRest
    /\ config \in PollConfigs
    /\ color_modes = InitColorModes(SetupColorModes(config))
    /\ color_mode = DefaultColorMode(color_modes)
    /\ is_on = FALSE
    /\ brightness = 255
    /\ color_temp = Null
    /\ hs_color = Null
    /\ rgb_color = Null
    /\ cmd = CmdIdle
    /\ upd = UpdIdle
    /\ poll = PollRace

SpecRace == InitRace /\ [][NextLight]_vars

\* A brightness-only entity whose polls report what was last written.
InitTrip ==
    /\ now = StartTime
    /\ api_key = 32
    /\ InitSession
    /\ in_order = FALSE
    /\ HostAtRest
    /\ config = [cct_support |-> FALSE, rgb_support |-> FALSE, hsi_support |-> FALSE,
                 cct_min |-> 2000, cct_max |-> 10000]
    /\ color_modes = InitColorModes(SetupColorModes(config))
    /\ color_mode = DefaultColorMode(color_modes)
    /\ is_on = FALSE
    /\ brightness = 255
    /\ color_temp = Null
    /\ hs_color = Null
    /\ rgb_color = Null
    /\ cmd = CmdIdle
    /\ upd = UpdIdle
    /\ poll = PollTrip

SpecTrip == InitTrip /\ [][NextTrip]_vars

\* The two services called by concurrent callers on one session, over every
\* registry.
InitService ==
    /\ now = StartTime
    /\ api_key = 32
    /\ InitSession
    /\ in_order = FALSE
    /\ LightAtRest
    /\ devices \in Registries
    /\ service = [c \in Calls |-> NoService]
    /\ setup = NoSetup

NextService ==
    \/ \E c \in 1..MaxServiceCalls : async_set_preset(c)
    \/ \E c \in 1..MaxServiceCalls : async_set_quickshot(c)
    \/ \E c \in Calls : Wake(c)
    \/ \E c \in Calls : ConnectOk(c)
    \/ \E c \in Calls : ConnectFail(c)
    \/ \E c \in Calls : AcquireLock(c)
    \/ \E c \in Calls : SendOk(c)
    \/ \E c \in Calls : SendFault(c)
    \/ \E c \in Calls : RecvOk(c)
    \/ \E c \in Calls : RecvFault(c)
    \/ Tick

SpecService == InitService /\ [][NextService]_vars

\* The session under concurrent callers, with a controller that answers each
\* request once and in order.
InitReply ==
    /\ now = StartTime
    /\ api_key = 32
    /\ InitSession
    /\ in_order = TRUE
    /\ LightAtRest
    /\ HostAtRest

SpecReply == InitReply /\ [][Next]_vars

\* The same with send_request as the only caller of connect(), and with
\* every suspended coroutine resumed in the end: the clock
\* advances, a sleep ends, a connect attempt succeeds or fails, a free lock
\* is granted to the first in its queue, a send returns or raises, and a
\* reply that has arrived is read.  A fault is never bound to happen.
LiveFairness ==
    /\ WF_vars(Tick)
    /\ \A c \in Calls :
          /\ WF_vars(Wake(c))
          /\ WF_vars(ConnectOk(c) \/ ConnectFail(c))
          /\ WF_vars(AcquireLock(c))
          /\ WF_vars(SendOk(c) \/ SendFault(c))
          /\ WF_vars(RecvOk(c))

NextSendRequest ==
    \/ \E c \in Calls : StartSendRequest(c)
    \/ \E c \in Calls : Wake(c)
    \/ \E c \in Calls : ConnectOk(c)
    \/ \E c \in Calls : ConnectFail(c)
    \/ \E c \in Calls : AcquireLock(c)
    \/ \E c \in Calls : SendOk(c)
    \/ \E c \in Calls : SendFault(c)
    \/ \E c \in Calls : RecvOk(c)
    \/ \E c \in Calls : RecvFault(c)
    \/ Tick

SpecLive == InitReply /\ [][NextSendRequest]_vars /\ LiveFairness

\* Setup of the integration over every device list.
InitSetup ==
    /\ now = StartTime
    /\ api_key = 32
    /\ InitSession
    /\ in_order = FALSE
    /\ LightAtRest
    /\ HostAtRest

SpecSetup == InitSetup /\ [][NextSetup]_vars

\* ------------------------------------------------------------ session claims
InFlight == {c \in Calls : pc[c] \in {"sending", "receiving"}}

\* The step is the except clause of call c running after a fault in send or recv.
FaultStep(c) ==
    /\ pc[c] \in {"sending", "receiving"}
    /\ pc'[c] = "done"
    /\ ret'[c] # "reply"

\* The step takes send_request call c past line 317.
SocketCheckStep(c) ==
    /\ kind'[c] = "send_request"
    /\ pc[c] \in {"idle", "sleeping"}
    /\ pc'[c] \notin {"idle", "sleeping"}

\* The step is a connect() attempt of call c failing.
ConnectFailStep(c) ==
    /\ pc[c] = "connecting"
    /\ pc'[c] # "connecting"
    /\ opened' = opened

\* The step runs generate_token for send_request call c.
TokenStep(c) ==
    \/ SocketCheckStep(c) /\ pc'[c] # "connecting"
    \/ /\ pc[c] = "connecting" /\ pc'[c] # "connecting"
       /\ kind[c] = "send_request" /\ opened' > opened

\* C1: the _last_request_time values recorded by two consecutive callers of
\* send_request are at least min_request_interval (200 ms) apart.
C1_PacingSpacing ==
    passes >= 2 => last_request_time - prev_pass >= min_request_interval

\* C2: the request_id values of the envelopes written to the socket increase
\* by exactly 1 from one envelope to the next.
C2_RequestIdsIncreaseByOne ==
    \A i \in 1..(Len(wire) - 1) :
        wire[i + 1].request_id = wire[i].request_id + 1

\* C3: at most one send_request caller is inside the send/receive pair, so no
\* envelope is written while an earlier caller still waits for its reply.
C3_OneInFlight == Cardinality(InFlight) <= 1

C3_Witness ==
    \E c, d \in Calls : pc[c] = "receiving" /\ pc[d] = "waitlock"

\* C4: a fault during send or receive makes the call return {} and leaves the
\* session without a handle; a send_request call that finds the handle absent
\* goes to connect() and writes nothing before it; the handle only ever
\* changes to a connection opened in that same step by a connect() in progress.
C4_FaultDropsSocket ==
    [][/\ \A c \in Calls : FaultStep(c) =>
              ret'[c] = "empty" /\ websocket' = None
       /\ \A c \in Calls : (SocketCheckStep(c) /\ websocket = None) =>
              pc'[c] = "connecting" /\ connects'[c] = 1 /\ wire' = wire
       /\ (websocket' # websocket /\ websocket' # None) =>
              /\ opened' = opened + 1
              /\ websocket' = opened'
              /\ \E c \in Calls : pc[c] = "connecting" /\ pc'[c] # "connecting"
      ]_vars

C4_Witness ==
    /\ Len(wire) = 2
    /\ wire[1].sock = 1 /\ wire[2].sock = 2
    /\ ret[wire[1].call] = "empty"
    /\ saw_none[wire[2].call] /\ connects[wire[2].call] = 1
    /\ \A c \in Calls : kind[c] # "connect"

\* C5: a failing connect() returns false (or, inside send_request, makes the
\* call return {}) without touching the handle, the wire or request_id.
C5_ConnectFailure ==
    [][\A c \in Calls : ConnectFailStep(c) =>
          /\ pc'[c] = "done"
          /\ ret'[c] = (IF kind[c] = "connect" THEN "false" ELSE "empty")
          /\ websocket' = websocket
          /\ wire' = wire /\ writes'[c] = 0
          /\ request_id' = request_id
      ]_vars

C5_Witness ==
    /\ opened = 0 /\ websocket = None /\ request_id = 1 /\ wire = <<>>
    /\ \E c, d \in Calls :
          /\ kind[c] = "connect" /\ ret[c] = "false"
          /\ kind[d] = "send_request" /\ ret[d] = "empty" /\ connects[d] = 1

\* C6: when generate_token returns "", send_request returns {} at once: no
\* envelope is written, request_id is unchanged and the handle is kept.
C6_TokenFailure ==
    [][\A c \in Calls : (TokenStep(c) /\ token' = 0) =>
          /\ pc'[c] = "done" /\ ret'[c] = "empty"
          /\ wire' = wire /\ writes'[c] = 0
          /\ request_id' = request_id
          /\ websocket' # None
          /\ websocket' = (IF opened' > opened THEN opened' ELSE websocket)
      ]_vars

C6_Witness ==
    /\ token = 0 /\ websocket # None /\ wire = <<>> /\ request_id = 1
    /\ \E c \in Calls : kind[c] = "send_request" /\ ret[c] = "empty" /\ connects[c] = 1

\* C7: generate_token returns "" for every secret that does not decode to
\* exactly 32 bytes, and a non-empty token for a 32-byte key.
C7_TokenOnlyFor32ByteKey ==
    token # -1 => (token > 0 <=> api_key = 32)

\* C8: one send_request call makes at most one connect() attempt and writes
\* at most one envelope; a call that has returned does nothing more.
C8_NoRetry ==
    \A c \in Calls :
        /\ connects[c] <= 1
        /\ writes[c] <= 1
        /\ (pc[c] = "done" /\ kind[c] = "send_request") => ret[c] \in {"empty", "reply"}

C8_Witness ==
    \E c, d \in Calls :
        /\ connects[c] = 1 /\ writes[c] = 1 /\ ret[c] = "empty"
        /\ connects[d] = 1 /\ writes[d] = 0 /\ ret[d] = "empty"

\* C19: consecutive envelopes are written to the socket at least
\* min_request_interval (200 ms) apart, measured from write to write, also
\* when the later caller had queued on the lock.
C19_WritesSpaced ==
    \A i \in 2..Len(wire) :
        wire[i].queued => wire[i].at - wire[i - 1].at >= min_request_interval

\* C15: a set_preset or set_quickshot call naming a device id that is not a
\* key of the registry returns at once, dropped, and changes nothing of the
\* session, the entity or the registry; an envelope is written only for a
\* call whose device id is a key of the registry.
C15_UnknownDeviceDropped ==
    [][\A c \in Calls :
          /\ (service[c] = NoService /\ service'[c] # NoService
                  /\ devices[service'[c].device_id] = "absent")
                => /\ pc'[c] = "done" /\ ret'[c] = "dropped"
                   /\ writes'[c] = 0 /\ connects'[c] = 0
                   /\ UNCHANGED <<websocket, opened, request_id, last_request_time,
                                  ws_lock, ws_waiters, wire, token, devices>>
                   /\ UNCHANGED lightVars
          /\ writes'[c] > writes[c]
                => /\ service[c] # NoService
                   /\ devices[service[c].device_id] # "absent"]_vars

\* One call named an id the registry lacks and was dropped; another named a
\* registered light and its envelope is on the wire.
C15_Witness ==
    \E c, d \in Calls :
        /\ service[c] # NoService /\ devices[service[c].device_id] = "absent"
        /\ ret[c] = "dropped"
        /\ service[d] # NoService /\ devices[service[d].device_id] = "light"
        /\ writes[d] = 1

\* -------------------------------------------------------------- light claims
\* C9: at most one of the stored colour temperature, hue/saturation pair and
\* RGB triple is non-null, in every state commands and polls can reach (so a
\* step that stores one of them leaves the other two null).
C9_ColorFieldsExclusive ==
    /\ color_temp # Null => hs_color = Null /\ rgb_color = Null
    /\ hs_color # Null => color_temp = Null /\ rgb_color = Null
    /\ rgb_color # Null => color_temp = Null /\ hs_color = Null

\* A command has stored a colour temperature on a device whose supported
\* mode is HS, while a poll is waiting for get_hsi and a second command is
\* waiting for set_rgb: all three writers of the colour fields are at work.
C9_Witness ==
    /\ HS \in color_modes
    /\ color_mode = COLOR_TEMP /\ color_temp # Null
    /\ upd.pc = "get_hsi"
    /\ cmd.pc = "set_rgb"

\* C10: for every combination of cct_support, rgb_support and hsi_support
\* the supported set holds at most one of COLOR_TEMP, HS and RGB; it is
\* COLOR_TEMP alone whenever cct_support is set and BRIGHTNESS alone when
\* no flag is set.
C10_OneColorMode ==
    /\ Cardinality(color_modes \cap {COLOR_TEMP, HS, RGB}) <= 1
    /\ config.cct_support => color_modes = {COLOR_TEMP}
    /\ (~config.cct_support /\ ~config.rgb_support /\ ~config.hsi_support)
          => color_modes = {BRIGHTNESS}

\* A light constructed from a node that reports all three capabilities.
C10_Witness ==
    /\ config.cct_support /\ config.rgb_support /\ config.hsi_support
    /\ color_modes = {COLOR_TEMP}
    /\ color_mode = COLOR_TEMP
    /\ ~is_on

\* ---------------------------------------------------------- command claims
\* The step in which the running async_turn_on returns.
TurnOnEnds == cmd.pc \notin {"idle", "off"} /\ cmd'.pc = "idle"

\* The colour requests among those a command has sent, in order.
ColorSends(sent) ==
    LET cs == SelectSeq(sent, LAMBDA q : q.action \in {"set_cct", "set_hsi", "set_rgb"})
    IN  [i \in 1..Len(cs) |-> cs[i].action]

\* The request of the highest-priority colour attribute a command carries.
TopAttribute(kw) ==
    IF kw.color_temp_kelvin # Null THEN "set_cct"
    ELSE IF kw.hs_color # Null THEN "set_hsi"
    ELSE IF kw.rgb_color # Null THEN "set_rgb"
    ELSE "none"

\* C14: when async_turn_on returns, the only colour request it has sent is
\* that of the highest-priority attribute it carried (colour temperature,
\* then hue/saturation, then RGB); that attribute is the colour mode and
\* the only stored colour value.  With colour temperature and
\* hue/saturation both present: mode COLOR_TEMP, no stored pair, no
\* set_hsi sent.
C14_HighestPriorityAttribute ==
    [][TurnOnEnds =>
          LET top == TopAttribute(cmd.kwargs) IN
          CASE top = "set_cct" ->
                  /\ ColorSends(cmd.sent) = <<"set_cct">>
                  /\ color_mode' = COLOR_TEMP
                  /\ color_temp' # Null /\ hs_color' = Null /\ rgb_color' = Null
            [] top = "set_hsi" ->
                  /\ ColorSends(cmd.sent) = <<"set_hsi">>
                  /\ color_mode' = HS
                  /\ hs_color' = cmd.kwargs.hs_color
                  /\ color_temp' = Null /\ rgb_color' = Null
            [] top = "set_rgb" ->
                  /\ ColorSends(cmd.sent) = <<"set_rgb">>
                  /\ color_mode' = RGB
                  /\ rgb_color' = cmd.kwargs.rgb_color
                  /\ color_temp' = Null /\ hs_color' = Null
            [] OTHER ->
                  /\ ColorSends(cmd.sent) = <<>>
                  /\ UNCHANGED <<color_mode, color_temp, hs_color, rgb_color>>]_vars

\* A command carrying all three colour attributes has sent set_cct alone and
\* waits for it, on a device that held a hue/saturation pair.
C14_Witness ==
    /\ cmd.kwargs.color_temp_kelvin # Null
    /\ cmd.kwargs.hs_color # Null
    /\ cmd.kwargs.rgb_color # Null
    /\ cmd.pc = "set_cct"
    /\ ColorSends(cmd.sent) = <<"set_cct">>
    /\ hs_color # Null

\* C17: async_turn_on without attributes sends one set_intensity request
\* and no other: with intensity 1000, the stored brightness forced to 255,
\* when the stored brightness is zero, and otherwise with the stored
\* brightness scaled by 1000/255, the stored brightness unchanged; when it
\* returns, power is on.
C17_PlainTurnOn ==
    [][/\ (cmd.pc = "idle" /\ cmd'.pc # "idle" /\ cmd'.pc # "off"
              /\ cmd'.kwargs = NoKwargs)
            => /\ cmd'.pc = "on_plain"
               /\ IF brightness = 0
                  THEN /\ cmd'.sent = <<Req("set_intensity", <<1000>>)>>
                       /\ brightness' = 255
                  ELSE /\ cmd'.sent =
                             <<Req("set_intensity", <<(brightness * 1000) \div 255>>)>>
                       /\ brightness' = brightness
       /\ (cmd.pc = "on_plain" /\ cmd'.pc # "on_plain")
            => /\ cmd'.pc = "idle"
               /\ Len(cmd.sent) = 1
               /\ is_on'
               /\ brightness' = brightness]_vars

\* A plain turn-on of a light whose brightness a poll had set to 127 waits
\* for its one request.
C17_Witness ==
    /\ cmd.pc = "on_plain"
    /\ cmd.kwargs = NoKwargs
    /\ brightness = 127
    /\ cmd.sent = <<Req("set_intensity", <<498>>)>>

\* The Kelvin value of the set_cct request the running command waits for.
SentKelvin(c) == c.sent[Len(c.sent)].args[1]

\* C18: the Kelvin value async_turn_on sends in set_cct lies within the
\* device's bounds [cct_min, cct_max] and is the requested value when that
\* lies within them; it is the value stored when the request returns.
C18_KelvinClamped ==
    [][/\ cmd'.pc = "set_cct"
            => LET k == cmd'.kwargs.color_temp_kelvin[1]
                   v == SentKelvin(cmd')
               IN  /\ cmd'.sent[Len(cmd'.sent)].action = "set_cct"
                   /\ config.cct_min <= v /\ v <= config.cct_max
                   /\ (config.cct_min <= k /\ k <= config.cct_max) => v = k
       /\ (cmd.pc = "set_cct" /\ cmd'.pc # "set_cct")
            => color_temp' = <<SentKelvin(cmd)>>]_vars

\* 5600 K was asked of a device whose range ends at 5000 K.
C18_Witness ==
    /\ cmd.pc = "set_cct"
    /\ cmd.kwargs.color_temp_kelvin = <<5600>>
    /\ config.cct_max = 5000
    /\ SentKelvin(cmd) = 5000

\* ------------------------------------------------------------- poll claims
\* round(n / d) for n >= 0 and d > 0.
RoundDiv(n, d) == (2 * n + d) \div (2 * d)

\* The brightness and power the poll holds once it has consumed a reply:
\* what it has stored when that reply ended the poll, its locals otherwise.
PolledBrightness == IF upd.pc = "idle" THEN brightness ELSE upd.new_brightness
PolledIsOn == IF upd.pc = "idle" THEN is_on ELSE upd.new_is_on

\* C11: once a poll has consumed a get_intensity reply whose data field is a
\* direct number i, its brightness is round(i * 255 / 1000) and its power
\* is (i > 0); 500 gives brightness 128 and power on.
C11_DirectIntensity ==
    (poll.reply.query = "get_intensity" /\ poll.reply.r.k = "num")
        => /\ PolledBrightness = RoundDiv(poll.reply.r.v * 255, 1000)
           /\ PolledIsOn = (poll.reply.r.v > 0)

\* A get_cct reply whose data is a mapping with a numeric cct key.
CctKeyReply ==
    /\ poll.reply.query = "get_cct"
    /\ poll.reply.r.k = "dict"
    /\ HasKey(poll.reply.r.items, "cct")
    /\ IsNumber(Lookup(poll.reply.r.items, "cct"))

\* C12: on a device that supports colour temperature, whatever the colour
\* mode and the stored values were, a poll that consumes a get_cct reply
\* with a numeric cct key of value v ends there, with colour mode
\* COLOR_TEMP, colour temperature v, and no hue/saturation and no RGB.
C12_CctReplyWins ==
    CctKeyReply
        => /\ upd.pc = "idle"
           /\ color_mode = COLOR_TEMP
           /\ color_temp = <<Lookup(poll.reply.r.items, "cct").v>>
           /\ hs_color = Null
           /\ rgb_color = Null

\* The poll found the device in HS mode with a stored hue/saturation pair.
C12_Witness ==
    /\ CctKeyReply
    /\ poll.reply.before.color_mode = HS
    /\ poll.reply.before.hs_color # Null
    /\ color_temp = <<5600>>

\* What the reply consumed by the latest poll step resolves to, or Null.
ReplyValue ==
    CASE poll.reply.query = "get_intensity" -> DecodeIntensity(poll.reply.r)
      [] poll.reply.query = "get_cct" -> DecodeCct(poll.reply.r)
      [] poll.reply.query = "get_hsi" -> DecodeHsi(poll.reply.r)
      [] poll.reply.query = "get_rgb" -> DecodeRgb(poll.reply.r)
      [] OTHER -> Null

\* The latest step ended a poll during which no command step ran.
PollJustEnded == poll.reply.query # "none" /\ upd.pc = "idle" /\ poll.clean

\* The poll that just ended resolved no colour mode: it issued no colour
\* query, or its last one (a query that resolves ends the poll) failed or
\* brought an unusable payload.
NoModeResolved ==
    PollJustEnded /\ (poll.reply.query = "get_intensity" \/ ReplyValue = Null)

\* C13: after a poll in which no colour mode resolved, the colour mode and
\* the three stored colour values are those from before the poll; when the
\* poll asked for the intensity only and did not resolve it, brightness and
\* power are too.
C13_UnresolvedPollKeepsState ==
    NoModeResolved
        => /\ color_mode = poll.reply.before.color_mode
           /\ color_temp = poll.reply.before.color_temp
           /\ hs_color = poll.reply.before.hs_color
           /\ rgb_color = poll.reply.before.rgb_color
           /\ (poll.reply.query = "get_intensity" /\ ReplyValue = Null)
                 => /\ brightness = poll.reply.before.brightness
                    /\ is_on = poll.reply.before.is_on

\* The poll found the entity in RGB mode with a stored triple, and its only
\* colour query failed.
C13_Witness ==
    /\ NoModeResolved
    /\ poll.reply.query = "get_hsi"
    /\ poll.reply.before.color_mode = RGB
    /\ poll.reply.before.rgb_color # Null
    /\ color_mode = RGB /\ rgb_color # Null

\* The latest poll step consumed a reply to `query` whose data is a mapping
\* without the key `key`.
KeylessReply(query, key) ==
    /\ poll.reply.query = query
    /\ poll.reply.r.k = "dict"
    /\ ~HasKey(poll.reply.r.items, key)

ColorQueries == {"get_cct", "get_hsi", "get_rgb"}

\* The telemetry query of a colour mode.
QueryOf(mode) ==
    CASE mode = COLOR_TEMP -> "get_cct"
      [] mode = HS -> "get_hsi"
      [] mode = RGB -> "get_rgb"
      [] OTHER -> "idle"

\* The colour modes a device supports, as queries in priority order.
SupportedQueries ==
    SelectSeq(<<"get_cct", "get_hsi", "get_rgb">>,
              LAMBDA q : \E m \in color_modes : QueryOf(m) = q)

\* The colour queries among the requests a poll has sent, in order.
ColorQueriesSent(sent) ==
    LET cs == SelectSeq(sent, LAMBDA q : q.action \in ColorQueries)
    IN  [i \in 1..Len(cs) |-> cs[i].action]

\* C20: when the intensity reply is in, a poll whose device is in a
\* supported colour mode asks for that mode's telemetry and for nothing
\* else; otherwise it asks in the order get_cct, get_hsi, get_rgb, for
\* supported modes only, and asks no further once a query has resolved.
C20_QueryOrder ==
    [][/\ (upd.pc = "get_intensity" /\ upd'.pc # "get_intensity")
            => IF color_mode \in color_modes \cap {COLOR_TEMP, HS, RGB}
               THEN upd'.pc = QueryOf(color_mode)
               ELSE upd'.pc = IF SupportedQueries = <<>> THEN "idle"
                              ELSE Head(SupportedQueries)
       /\ (upd'.pc \in ColorQueries /\ upd'.pc # upd.pc)
            => /\ QueryRank(upd'.pc) > QueryRank(upd.pc)
               /\ \E m \in color_modes : QueryOf(m) = upd'.pc
       /\ (upd.pc \in ColorQueries /\ upd'.pc # upd.pc /\ ReplyValue' # Null)
            => upd'.pc = "idle"
       /\ (upd.pc # "idle" /\ upd'.pc = "idle" /\ poll'.clean
              /\ color_mode \in color_modes \cap {COLOR_TEMP, HS, RGB})
            => ColorQueriesSent(upd.sent) = <<QueryOf(color_mode)>>
       /\ (upd.pc # "idle" /\ upd'.pc = "idle")
            => \E n \in 0..Len(SupportedQueries) :
                  ColorQueriesSent(upd.sent) = SubSeq(SupportedQueries, 1, n)]_vars

\* A device that supports HS is in RGB mode, and its poll, the intensity
\* reply in, waits for get_hsi.
C20_Witness ==
    /\ poll.reply.query = "get_intensity"
    /\ color_modes = {HS}
    /\ color_mode = RGB
    /\ upd.pc = "get_hsi"

\* ------------------------------------------------- session claims, continued
\* The step is a websocket.send of call c that raises, or the attribute
\* access of line 342 raising on an absent handle: nothing reaches the wire.
WriteFailStep(c) ==
    /\ pc[c] \in {"sending", "waitlock"}
    /\ pc'[c] = "done"
    /\ wire' = wire

\* C21: request_id never decreases and is never reset; it is one more than
\* the number of envelopes written so far, so each written envelope advances
\* it by exactly 1, also when the receive that follows fails; a call that
\* fails at connect, at the token or at the write leaves it unchanged.
C21_CounterAdvancesPerWrite ==
    [][/\ request_id' >= request_id
       /\ request_id' = 1 + Len(wire')
       /\ request_id' - request_id = Len(wire') - Len(wire)
       /\ \A c \in Calls :
             (\/ ConnectFailStep(c)
              \/ TokenStep(c) /\ token' = 0
              \/ WriteFailStep(c)
              \/ pc[c] = "receiving" /\ pc'[c] = "done")
                => request_id' = request_id
      ]_vars

\* Two envelopes were written on two connections: the first call's receive
\* failed, a later call's write failed, and the counter stands at 3.
C21_Witness ==
    /\ request_id = 3 /\ Len(wire) = 2 /\ opened >= 2
    /\ ret[wire[1].call] = "empty"
    /\ \E c \in Calls : kind[c] = "send_request" /\ ret[c] = "empty"
                        /\ writes[c] = 0 /\ request[c] # 0

\* C22: with send_request callers only, a connection is opened only while
\* the session has no handle, and the new connection becomes the handle: no
\* connection that the handle refers to is replaced, left open without a
\* handle, by the connection of another caller that had found the handle
\* absent.
C22_SingleSocket ==
    [][(/\ \A c \in Calls : kind'[c] # "connect"
        /\ opened' > opened)
          => /\ websocket = None
             /\ websocket' = opened']_vars

\* C24: a send_request caller enters the send/receive section (it is granted
\* the lock, at once or after queueing) only while the session has a handle.
C24_HandlePresentOnEntry ==
    [][\A c \in Calls :
          (/\ kind[c] = "send_request" \/ kind'[c] = "send_request"
           /\ pc[c] \in {"idle", "sleeping", "connecting", "waitlock"}
           /\ \/ pc'[c] = "sending"
              \/ pc[c] = "waitlock" /\ pc'[c] = "done")
            => websocket' # None /\ pc'[c] = "sending"]_vars

\* C25: with a controller that answers each request on a connection once and
\* in order, a call that returned a reply was handed the reply to the
\* envelope it wrote itself.
C25_OwnReply ==
    in_order =>
        \A c \in Calls :
            ret[c] = "reply" => got[c] # 0 /\ wire[got[c]].call = c

\* Two calls got replies on two connections, and between them a call wrote
\* its envelope and faulted with the reply to it still unread.
C25_Witness ==
    /\ in_order
    /\ \E c, d, e \in Calls :
          /\ ret[c] = "reply" /\ ret[d] = "reply" /\ got[c] < got[d]
          /\ wire[got[c]].sock # wire[got[d]].sock
          /\ ret[e] = "empty" /\ writes[e] = 1
          /\ \E i \in 1..Len(inbox) : wire[inbox[i].envelope].call = e

\* The sleep of call c ends within the time the clock covers.
InTime(c) == pc[c] = "sleeping" => wake[c] <= StartTime + MaxElapsed

\* C26: when every connect attempt ends, every send ends and every reply
\* that arrives is read, each send_request call returns in the end and the
\* lock, once held, is released in the end.
C26_EveryCallReturns ==
    /\ \A c \in Calls :
          (kind[c] = "send_request" /\ InTime(c)) ~> (pc[c] = "done")
    /\ (ws_lock # None) ~> (ws_lock = None)

\* ------------------------------------------------- entity claims, continued
\* C27: the current colour mode is one of the supported colour modes of the
\* device, or BRIGHTNESS when it supports no colour mode.
C27_ModeSupported ==
    \/ color_mode \in color_modes
    \/ color_modes \cap {COLOR_TEMP, HS, RGB} = {} /\ color_mode = BRIGHTNESS

\* C28: a light whose power is on has a stored brightness above zero.
C28_OnImpliesBright ==
    is_on => brightness > 0

\* C29: when a command began after a poll had read its intensity reply and
\* returned before the poll ended, the final write of the poll leaves the
\* power the command set, and the brightness if the command carried one.
C29_PollKeepsCommandState ==
    [][(upd.pc # "idle" /\ upd'.pc = "idle" /\ poll.race = "returned")
          => /\ is_on' = is_on
             /\ poll.set_brightness => brightness' = brightness]_vars

\* C30: a poll that reads back the intensity written for external
\* brightness b, the command having returned and nothing else having
\* touched the entity, stores brightness b again.
C30_BrightnessRoundTrip ==
    [][(/\ upd.pc = "get_intensity" /\ upd'.pc = "idle"
        /\ cmd.pc = "idle"
        /\ poll.written = <<ToIntensity(brightness)>>)
          => brightness' = brightness]_vars

\* ------------------------------------------------------------- setup claims
\* C23: when discovery and platform setup are over, the registry has no
\* entry under the id of the all-devices group.
C23_NoGroupEntry ==
    setup.pc = "done" => devices[AllDevicesGroup] = "absent"

====
